---- MODULE Spec2Model ----
(***************************************************************************)
(* State model of the VRL compiler state module                            *)
(* (lib/vrl/compiler/src/state.rs): LocalEnv, ExternalEnv, Runtime; of the *)
(* compile entry points (lib/vrl/vrl/src/lib.rs); and of the metrics       *)
(* initialisation (lib/vector-core/src/metrics/mod.rs).                    *)
(*                                                                         *)
(* Every object is a variable; every method is an action whose inputs are  *)
(* drawn from bounded sets.  `call` records the last call made on the      *)
(* object under study: its name, its arguments and what it returned;       *)
(* `sealed` records that read_only() has been applied to the ExternalEnv,   *)
(* `initialised` that a metrics init call has returned Ok.                 *)
(***************************************************************************)
EXTENDS Integers, Sequences, FiniteSets, TLC

VARIABLES local, target, metadata, read_only_paths, custom, sealed, call,
          variables, CONTROLLER, RECORDER, registry, initialised,
          PREVIOUS_VALUE, threads, emitted, supplied, filter_list

vars == <<local, target, metadata, read_only_paths, custom, sealed, call,
          variables, CONTROLLER, RECORDER, registry, initialised,
          PREVIOUS_VALUE, threads, emitted, supplied, filter_list>>

\* the ExternalEnv under study
externalVars == <<target, metadata, read_only_paths, custom, sealed>>

\* the Runtime under study
runtimeVars == <<variables>>

\* the process-wide state of the metrics subsystem
metricsVars == <<CONTROLLER, RECORDER, registry, initialised>>

\* one update_counter! call site and the threads running through it
counterVars == <<PREVIOUS_VALUE, threads, emitted, supplied>>

(***************************************************************************)
(* Bounds                                                                  *)
(***************************************************************************)
\* number of distinct constant values known per scalar kind
MaxConst == 1
\* longest path a read-only rule is declared on
MaxPathLen == 2
\* most read-only rules stored in one ExternalEnv
MaxRules == 2
\* number of distinct values of one injected context type
MaxCtxVal == 2
\* most statements in one source text
MaxSrcLen == 2
\* most metric keys registered at one time
MaxKeys == 2
\* largest value handed to update_counter!
MaxValue == 2
\* most patterns in one includes or excludes list
MaxPatterns == 2
\* longest name matched against a FilterList
MaxNameLen == 2

(***************************************************************************)
(* Option<T>: None is the empty sequence, Some(v) the one-element sequence *)
(***************************************************************************)
None == <<>>

Some(v) == <<v>>

(***************************************************************************)
(* Kind: the set of shapes a value may take, as a non-empty set of         *)
(* primitive kinds; the join of the lattice is set union.                  *)
(***************************************************************************)
Primitive == {"bytes", "integer", "object"}

Kind == (SUBSET Primitive) \ {{}}

Kind_merge(a, b) == a \cup b

\* Kind::object(Collection::any())
Kind_object_any == {"object"}

\* constant values: a scalar kind and which constant of that kind
Value == {"bytes", "integer"} \X (1..MaxConst)

\* Details { type_def, value: Option<Value> }
Details == [type_def : Kind, value : {None} \cup {Some(v) : v \in Value}]

\* Details::merge: join of the type definitions; the constant survives only
\* when both sides agree on it
Details_merge(self, other) ==
    [type_def |-> Kind_merge(self.type_def, other.type_def),
     value |-> IF self.value = other.value THEN self.value ELSE None]

(***************************************************************************)
(* LocalEnv { bindings: HashMap<Ident, Details> }                          *)
(***************************************************************************)
Ident == {"x", "y"}

\* the Details the compiler binds a variable to: an inferred scalar type, or
\* a proven constant with the type of that constant
VarDetails ==
    {d \in Details :
        /\ d.type_def \subseteq {"bytes", "integer"}
        /\ d.value # None => d.type_def = {d.value[1][1]}}

LocalEnvs == UNION {[D -> VarDetails] : D \in SUBSET Ident}

\* LocalEnv::default()
LocalEnv_default == [i \in {} |-> None]

LocalEnv_variable_idents(self) == DOMAIN self

LocalEnv_variable(self, ident) ==
    IF ident \in DOMAIN self THEN Some(self[ident]) ELSE None

\* faulty variant: an identifier already bound keeps its first binding
insert_variable_keeping_first(self, ident, details) ==
    IF ident \in DOMAIN self THEN self
    ELSE [i \in DOMAIN self \cup {ident} |-> IF i = ident THEN details ELSE self[i]]

LocalEnv_insert_variable(self, ident, details) ==
    [i \in (DOMAIN self) \cup {ident} |-> IF i = ident THEN details ELSE self[i]]

LocalEnv_remove_variable(self, ident) ==
    [i \in (DOMAIN self) \ {ident} |-> self[i]]

\* faulty variant: apply_child_scope that promotes the child's own names
apply_child_scope_promoting(self, child) ==
    [i \in (DOMAIN self) \cup (DOMAIN child) |->
        IF i \in DOMAIN child THEN child[i] ELSE self[i]]

\* for (ident, child_details) in child.bindings:
\*     if let Some(self_details) = self.bindings.get_mut(&ident): overwrite
LocalEnv_apply_child_scope(self, child) ==
    [i \in DOMAIN self |-> IF i \in DOMAIN child THEN child[i] ELSE self[i]]

\* faulty variant: merge that overwrites instead of joining
merge_overwriting(self, other) ==
    [i \in DOMAIN self |-> IF i \in DOMAIN other THEN other[i] ELSE self[i]]

\* faulty variant: merge that also takes over the names only `other` binds
merge_keeping_other(self, other) ==
    [i \in (DOMAIN self) \cup (DOMAIN other) |->
        IF i \in DOMAIN self
        THEN IF i \in DOMAIN other THEN Details_merge(self[i], other[i]) ELSE self[i]
        ELSE other[i]]

\* faulty variant: merge that keeps only the names bound on both sides
merge_intersecting(self, other) ==
    [i \in (DOMAIN self) \cap (DOMAIN other) |-> Details_merge(self[i], other[i])]

\* for (ident, other_details) in other.bindings:
\*     if let Some(self_details) = self.bindings.get_mut(&ident): join
LocalEnv_merge(self, other) ==
    [i \in DOMAIN self |->
        IF i \in DOMAIN other THEN Details_merge(self[i], other[i]) ELSE self[i]]

(***************************************************************************)
(* Actions on the LocalEnv `local`                                         *)
(***************************************************************************)
Call_LocalEnv_insert_variable(ident, details) ==
    /\ local' = LocalEnv_insert_variable(local, ident, details)
    /\ call' = [op |-> "LocalEnv::insert_variable", ident |-> ident,
                details |-> details, replaced |-> LocalEnv_variable(local, ident)]
    /\ UNCHANGED <<target, metadata, read_only_paths, custom, sealed, runtimeVars, metricsVars, counterVars, filter_list>>

Call_LocalEnv_remove_variable(ident) ==
    /\ local' = LocalEnv_remove_variable(local, ident)
    /\ call' = [op |-> "LocalEnv::remove_variable", ident |-> ident,
                ret |-> LocalEnv_variable(local, ident)]
    /\ UNCHANGED <<target, metadata, read_only_paths, custom, sealed, runtimeVars, metricsVars, counterVars, filter_list>>

Call_LocalEnv_apply_child_scope(child) ==
    /\ local' = LocalEnv_apply_child_scope(local, child)
    /\ call' = [op |-> "LocalEnv::apply_child_scope", self |-> local,
                other |-> child]
    /\ UNCHANGED <<target, metadata, read_only_paths, custom, sealed, runtimeVars, metricsVars, counterVars, filter_list>>

Call_LocalEnv_merge(other) ==
    /\ local' = LocalEnv_merge(local, other)
    /\ call' = [op |-> "LocalEnv::merge", self |-> local, other |-> other]
    /\ UNCHANGED <<target, metadata, read_only_paths, custom, sealed, runtimeVars, metricsVars, counterVars, filter_list>>

(***************************************************************************)
(* Paths (LookupBuf): a path is the sequence of its segments, the root     *)
(* path the empty sequence.                                                *)
(***************************************************************************)
Segment == {"a", "b"}

Paths(n) == UNION {[1..k -> Segment] : k \in 0..n}

\* LookupBuf::root()
LookupBuf_root == <<>>

\* self.can_start_with(prefix): `prefix` is an ancestor of, or equal to, self
LookupBuf_can_start_with(self, prefix) ==
    /\ Len(prefix) <= Len(self)
    /\ \A i \in 1..Len(prefix) : self[i] = prefix[i]

\* the paths rules are declared on, and the paths queried (one level deeper,
\* so that the longest rule path has strict descendants)
RulePaths == Paths(MaxPathLen)

QueryPaths == Paths(MaxPathLen + 1)

(***************************************************************************)
(* ExternalEnv { target, metadata, read_only_paths, custom }               *)
(***************************************************************************)
PathRoot == {"Event", "Metadata"}

\* struct ReadOnlyPath { path, recursive, root }, compared on all its fields
ReadOnlyPath == [path : RulePaths, recursive : BOOLEAN, root : PathRoot]

\* faulty variant: loop body without the root filter
rule_applies_any_root(read_only_path, path, root) ==
    \/ LookupBuf_can_start_with(read_only_path.path, path)
    \/ IF read_only_path.recursive
       THEN LookupBuf_can_start_with(path, read_only_path.path)
       ELSE path = read_only_path.path

\* faulty variant: loop body whose first test runs in the other direction
rule_applies_descendants(read_only_path, path, root) ==
    /\ read_only_path.root = root
    /\ \/ LookupBuf_can_start_with(path, read_only_path.path)
       \/ IF read_only_path.recursive
          THEN LookupBuf_can_start_with(path, read_only_path.path)
          ELSE path = read_only_path.path

\* faulty variant: loop body that never looks at the recursive flag
rule_applies_exact_only(read_only_path, path, root) ==
    /\ read_only_path.root = root
    /\ \/ LookupBuf_can_start_with(read_only_path.path, path)
       \/ path = read_only_path.path

\* faulty variant: loop body without the test for parents of read-only paths
rule_applies_no_parents(read_only_path, path, root) ==
    /\ read_only_path.root = root
    /\ IF read_only_path.recursive
       THEN LookupBuf_can_start_with(path, read_only_path.path)
       ELSE path = read_only_path.path

\* faulty variant: loop body where a recursive rule covers its descendants
\* in place of, not in addition to, the parents
rule_applies_recursive_below_only(read_only_path, path, root) ==
    /\ read_only_path.root = root
    /\ IF read_only_path.recursive
       THEN LookupBuf_can_start_with(path, read_only_path.path)
       ELSE \/ LookupBuf_can_start_with(read_only_path.path, path)
            \/ path = read_only_path.path

\* the body of the loop of is_read_only_path: does this rule make `path`
\* read-only
rule_applies(read_only_path, path, root) ==
    /\ read_only_path.root = root
    /\ \/ LookupBuf_can_start_with(read_only_path.path, path)
       \/ IF read_only_path.recursive
          THEN LookupBuf_can_start_with(path, read_only_path.path)
          ELSE path = read_only_path.path

\* for read_only_path in &self.read_only_paths: return true on the first
\* rule that applies, false when none does
ExternalEnv_is_read_only_path(rules, path, root) ==
    \E read_only_path \in rules : rule_applies(read_only_path, path, root)

ExternalEnv_is_read_only_event_path(rules, path) ==
    ExternalEnv_is_read_only_path(rules, path, "Event")

ExternalEnv_is_read_only_metadata_path(rules, path) ==
    ExternalEnv_is_read_only_path(rules, path, "Metadata")

\* faulty variant: insert that keeps one rule per path
set_read_only_path_by_path(rules, path, recursive, root) ==
    {r \in rules : r.path # path}
        \cup {[path |-> path, recursive |-> recursive, root |-> root]}

\* faulty variant: the new rule replaces the stored ones
set_read_only_path_replacing(rules, path, recursive, root) ==
    {[path |-> path, recursive |-> recursive, root |-> root]}

\* BTreeSet::insert of the new rule
ExternalEnv_set_read_only_path(rules, path, recursive, root) ==
    rules \cup {[path |-> path, recursive |-> recursive, root |-> root]}

\* faulty variant: read_only that marks the roots non-recursively
read_only_not_recursive(rules) ==
    ExternalEnv_set_read_only_path(
        ExternalEnv_set_read_only_path(rules, LookupBuf_root, FALSE, "Event"),
        LookupBuf_root, FALSE, "Metadata")

\* set_read_only_event_path(root, true); set_read_only_metadata_path(root, true)
ExternalEnv_read_only(rules) ==
    ExternalEnv_set_read_only_path(
        ExternalEnv_set_read_only_path(rules, LookupBuf_root, TRUE, "Event"),
        LookupBuf_root, TRUE, "Metadata")

(***************************************************************************)
(* AnyMap: the stored instances, each tagged with its type                 *)
(***************************************************************************)
TypeId == {"T", "U"}

CtxValue == 1..MaxCtxVal

AnyMap_new == {}

\* insert::<T>(data): the instance of type T, replacing any stored before
AnyMap_insert(map, type, data) ==
    {e \in map : e[1] # type} \cup {<<type, data>>}

\* get::<T>()
AnyMap_get(map, type) ==
    IF \E e \in map : e[1] = type
    THEN Some((CHOOSE e \in map : e[1] = type)[2])
    ELSE None

\* the stores that can be built by inserts
AnyMaps ==
    {m \in SUBSET (TypeId \X CtxValue) :
        \A e1, e2 \in m : e1[1] = e2[1] => e1 = e2}

\* faulty variant: set_external_context that keeps the instance already stored
set_external_context_keeping_first(map, type, data) ==
    IF \E e \in map : e[1] = type THEN map ELSE map \cup {<<type, data>>}

\* self.custom.insert::<T>(data)
ExternalEnv_set_external_context(map, type, data) == AnyMap_insert(map, type, data)

\* self.custom.get::<T>()
ExternalEnv_get_external_context(map, type) == AnyMap_get(map, type)

\* faulty variant: swap that merges the new store into the old one
swap_external_context_merging(map, ctx) ==
    [custom |-> ctx \cup {e \in map : \A c \in ctx : c[1] # e[1]}, ret |-> map]

\* std::mem::replace(&mut self.custom, ctx): the new store and what is
\* returned
ExternalEnv_swap_external_context(map, ctx) == [custom |-> ctx, ret |-> map]

\* faulty variant: update_target that joins with the previous target
update_target_joining(old, details) == Details_merge(old, details)

\* self.target = details
ExternalEnv_update_target(old, details) == details

\* self.metadata = kind
ExternalEnv_update_metadata(old, kind) == kind

\* self.target().type_def.kind()
ExternalEnv_target_kind(details) == details.type_def

\* &self.metadata
ExternalEnv_metadata_kind(kind) == kind

\* faulty variant: a constructor that starts with everything read-only
new_with_kind_read_only(target_kind, metadata_kind) ==
    [target |-> [type_def |-> target_kind, value |-> None],
     metadata |-> metadata_kind,
     custom |-> AnyMap_new,
     read_only_paths |-> ExternalEnv_read_only({})]

\* ExternalEnv::new_with_kind(target, metadata)
ExternalEnv_new_with_kind(target_kind, metadata_kind) ==
    [target |-> [type_def |-> target_kind, value |-> None],
     metadata |-> metadata_kind,
     custom |-> AnyMap_new,
     read_only_paths |-> {}]

(***************************************************************************)
(* Actions on the ExternalEnv <<target, metadata, read_only_paths, custom>>*)
(***************************************************************************)
\* room for one more rule (the model's cap on the rule set)
HasRoom(path, recursive, root) ==
    \/ Cardinality(read_only_paths) < MaxRules
    \/ [path |-> path, recursive |-> recursive, root |-> root] \in read_only_paths

Call_set_read_only_event_path(path, recursive) ==
    /\ HasRoom(path, recursive, "Event")
    /\ read_only_paths' =
           ExternalEnv_set_read_only_path(read_only_paths, path, recursive, "Event")
    /\ call' = [op |-> "ExternalEnv::set_read_only_path", path |-> path,
                recursive |-> recursive, root |-> "Event",
                inserted |-> [path |-> path, recursive |-> recursive,
                              root |-> "Event"] \notin read_only_paths]
    /\ UNCHANGED <<local, target, metadata, custom, sealed, runtimeVars, metricsVars, counterVars, filter_list>>

Call_set_read_only_metadata_path(path, recursive) ==
    /\ HasRoom(path, recursive, "Metadata")
    /\ read_only_paths' =
           ExternalEnv_set_read_only_path(read_only_paths, path, recursive, "Metadata")
    /\ call' = [op |-> "ExternalEnv::set_read_only_path", path |-> path,
                recursive |-> recursive, root |-> "Metadata",
                inserted |-> [path |-> path, recursive |-> recursive,
                              root |-> "Metadata"] \notin read_only_paths]
    /\ UNCHANGED <<local, target, metadata, custom, sealed, runtimeVars, metricsVars, counterVars, filter_list>>

Call_read_only ==
    /\ read_only_paths' = ExternalEnv_read_only(read_only_paths)
    /\ sealed' = TRUE
    /\ call' = [op |-> "ExternalEnv::read_only"]
    /\ UNCHANGED <<local, target, metadata, custom, runtimeVars, metricsVars, counterVars, filter_list>>

Call_update_target(details) ==
    /\ target' = ExternalEnv_update_target(target, details)
    /\ call' = [op |-> "ExternalEnv::update_target", details |-> details]
    /\ UNCHANGED <<local, metadata, read_only_paths, custom, sealed, runtimeVars, metricsVars, counterVars, filter_list>>

Call_update_metadata(kind) ==
    /\ metadata' = ExternalEnv_update_metadata(metadata, kind)
    /\ call' = [op |-> "ExternalEnv::update_metadata", kind |-> kind]
    /\ UNCHANGED <<local, target, read_only_paths, custom, sealed, runtimeVars, metricsVars, counterVars, filter_list>>

Call_set_external_context(type, data) ==
    /\ custom' = ExternalEnv_set_external_context(custom, type, data)
    /\ call' = [op |-> "ExternalEnv::set_external_context", type |-> type,
                data |-> data, replaced |-> AnyMap_get(custom, type)]
    /\ UNCHANGED <<local, target, metadata, read_only_paths, sealed, runtimeVars, metricsVars, counterVars, filter_list>>

Call_swap_external_context(ctx) ==
    /\ custom' = ExternalEnv_swap_external_context(custom, ctx).custom
    /\ call' = [op |-> "ExternalEnv::swap_external_context", ctx |-> ctx,
                ret |-> ExternalEnv_swap_external_context(custom, ctx).ret]
    /\ UNCHANGED <<local, target, metadata, read_only_paths, sealed, runtimeVars, metricsVars, counterVars, filter_list>>

(***************************************************************************)
(* Initial states: LocalEnv::default() and ExternalEnv::default()          *)
(***************************************************************************)
ExternalEnv_default == ExternalEnv_new_with_kind(Kind_object_any, Kind_object_any)

\* the ExternalEnv under study is the freshly constructed `env`
Constructed(env) ==
    /\ target = env.target
    /\ metadata = env.metadata
    /\ custom = env.custom
    /\ read_only_paths = env.read_only_paths
    /\ sealed = FALSE

\* Runtime::default()
Runtime_default == [i \in {} |-> None]

\* nothing of the metrics subsystem is initialised
MetricsUninitialised ==
    /\ CONTROLLER = None
    /\ RECORDER = None
    /\ registry = {}
    /\ initialised = FALSE

\* FilterList::default(): no includes list and no excludes list
FilterList_default == [includes |-> None, excludes |-> None]

\* the threads that run through the update_counter! call site
Thread == {"t1", "t2"}

\* PREVIOUS_VALUE is AtomicU64::new(0): the variable holds its modification
\* order, the values stored so far, the last one being the current value;
\* every thread is outside the macro and has seen the initial value
CounterInitial ==
    /\ PREVIOUS_VALUE = <<0>>
    /\ threads = [t \in Thread |-> [pc |-> "idle", new_value |-> 0,
                                     previous_value |-> 0, seen |-> 1, delta |-> 0]]
    /\ emitted = 0
    /\ supplied = 0

Init ==
    /\ local = LocalEnv_default
    /\ Constructed(ExternalEnv_default)
    /\ variables = Runtime_default
    /\ MetricsUninitialised
    /\ CounterInitial
    /\ filter_list = FilterList_default
    /\ call = [op |-> "new"]

(***************************************************************************)
(* SpecLocal: one LocalEnv under every sequence of its operations          *)
(***************************************************************************)
NextLocal ==
    \/ \E ident \in Ident, details \in VarDetails :
           Call_LocalEnv_insert_variable(ident, details)
    \/ \E ident \in Ident : Call_LocalEnv_remove_variable(ident)
    \/ \E child \in LocalEnvs : Call_LocalEnv_apply_child_scope(child)
    \/ \E other \in LocalEnvs : Call_LocalEnv_merge(other)

SpecLocal == Init /\ [][NextLocal]_vars

(***************************************************************************)
(* SpecRules: the read-only rules of one ExternalEnv, rules on every path  *)
(* of up to MaxPathLen segments                                            *)
(***************************************************************************)
NextRules ==
    \/ \E path \in RulePaths, recursive \in BOOLEAN :
           Call_set_read_only_event_path(path, recursive)
    \/ \E path \in RulePaths, recursive \in BOOLEAN :
           Call_set_read_only_metadata_path(path, recursive)

SpecRules == Init /\ [][NextRules]_vars

(***************************************************************************)
(* Spec: one ExternalEnv under every sequence of its operations; rules are *)
(* declared on one field, and on the roots by read_only()                  *)
(***************************************************************************)
SeedPaths == {<<"a">>}

TargetInputs ==
    {d \in Details :
        /\ "integer" \notin d.type_def
        /\ d.value # None => d.type_def = {d.value[1][1]}}

MetadataInputs == {k \in Kind : "integer" \notin k}

Next ==
    \/ \E path \in SeedPaths, recursive \in BOOLEAN :
           Call_set_read_only_event_path(path, recursive)
    \/ \E path \in SeedPaths, recursive \in BOOLEAN :
           Call_set_read_only_metadata_path(path, recursive)
    \/ Call_read_only
    \/ \E details \in TargetInputs : Call_update_target(details)
    \/ \E kind \in MetadataInputs : Call_update_metadata(kind)
    \/ \E type \in TypeId, data \in CtxValue : Call_set_external_context(type, data)
    \/ \E ctx \in AnyMaps : Call_swap_external_context(ctx)

\* the ExternalEnv is built by default() or by new_with_kind(target, metadata)
InitExternal ==
    /\ local = LocalEnv_default
    /\ variables = Runtime_default
    /\ MetricsUninitialised
    /\ CounterInitial
    /\ filter_list = FilterList_default
    /\ \/ /\ Constructed(ExternalEnv_default)
          /\ call = [op |-> "ExternalEnv::default"]
       \/ \E target_kind \in MetadataInputs, metadata_kind \in MetadataInputs :
              /\ Constructed(ExternalEnv_new_with_kind(target_kind, metadata_kind))
              /\ call = [op |-> "ExternalEnv::new_with_kind",
                         target |-> target_kind, metadata |-> metadata_kind]

Spec == InitExternal /\ [][Next]_vars

(***************************************************************************)
(* Runtime: the identifier -> Value store used while a program executes    *)
(***************************************************************************)
Runtimes == UNION {[D -> Value] : D \in SUBSET Ident}

Runtime_is_empty(self) == DOMAIN self = {}

\* faulty variant: clear leaves the bindings in place
clear_noop(self) == self

Runtime_clear(self) == [i \in {} |-> None]

\* faulty variant: a missing variable reads as the first value
variable_or_default(self, ident) ==
    IF ident \in DOMAIN self THEN Some(self[ident])
    ELSE Some(CHOOSE v \in Value : TRUE)

Runtime_variable(self, ident) ==
    IF ident \in DOMAIN self THEN Some(self[ident]) ELSE None

Runtime_variable_mut(self, ident) ==
    IF ident \in DOMAIN self THEN Some(self[ident]) ELSE None

Runtime_insert_variable(self, ident, value) ==
    [i \in DOMAIN self \cup {ident} |-> IF i = ident THEN value ELSE self[i]]

\* faulty variant: removing a bound variable empties the store
remove_variable_draining(self, ident) ==
    IF ident \in DOMAIN self THEN [i \in {} |-> None] ELSE self

Runtime_remove_variable(self, ident) ==
    [i \in DOMAIN self \ {ident} |-> self[i]]

\* faulty variant: the value returned is the one just stored
swap_variable_returning_new(self, ident, value) ==
    [variables |-> Runtime_insert_variable(self, ident, value),
     ret |-> IF ident \in DOMAIN self THEN Some(value) ELSE None]

\* Entry::Occupied replaces the value and returns the old one, Entry::Vacant
\* inserts and returns None
Runtime_swap_variable(self, ident, value) ==
    IF ident \in DOMAIN self
    THEN [variables |-> [self EXCEPT ![ident] = value], ret |-> Some(self[ident])]
    ELSE [variables |-> Runtime_insert_variable(self, ident, value), ret |-> None]

Call_Runtime_is_empty ==
    /\ call' = [op |-> "Runtime::is_empty", ret |-> Runtime_is_empty(variables)]
    /\ UNCHANGED <<local, externalVars, runtimeVars, metricsVars, counterVars, filter_list>>

Call_Runtime_clear ==
    /\ variables' = Runtime_clear(variables)
    /\ call' = [op |-> "Runtime::clear", before |-> variables]
    /\ UNCHANGED <<local, externalVars, metricsVars, counterVars, filter_list>>

Call_Runtime_variable(ident) ==
    /\ call' = [op |-> "Runtime::variable", ident |-> ident,
                ret |-> Runtime_variable(variables, ident)]
    /\ UNCHANGED <<local, externalVars, runtimeVars, metricsVars, counterVars, filter_list>>

\* the caller may write through the reference it gets back
Call_Runtime_variable_mut(ident, write) ==
    LET ret == Runtime_variable_mut(variables, ident) IN
    /\ variables' = IF ret # None /\ write # None
                    THEN [variables EXCEPT ![ident] = write[1]]
                    ELSE variables
    /\ call' = [op |-> "Runtime::variable_mut", ident |-> ident, ret |-> ret]
    /\ UNCHANGED <<local, externalVars, metricsVars, counterVars, filter_list>>

Call_Runtime_insert_variable(ident, value) ==
    /\ variables' = Runtime_insert_variable(variables, ident, value)
    /\ call' = [op |-> "Runtime::insert_variable", ident |-> ident, value |-> value]
    /\ UNCHANGED <<local, externalVars, metricsVars, counterVars, filter_list>>

Call_Runtime_remove_variable(ident) ==
    /\ variables' = Runtime_remove_variable(variables, ident)
    /\ call' = [op |-> "Runtime::remove_variable", ident |-> ident]
    /\ UNCHANGED <<local, externalVars, metricsVars, counterVars, filter_list>>

Call_Runtime_swap_variable(ident, value) ==
    LET r == Runtime_swap_variable(variables, ident, value) IN
    /\ variables' = r.variables
    /\ call' = [op |-> "Runtime::swap_variable", ident |-> ident, value |-> value,
                ret |-> r.ret]
    /\ UNCHANGED <<local, externalVars, metricsVars, counterVars, filter_list>>

(***************************************************************************)
(* SpecRuntime: one Runtime under every sequence of its operations         *)
(***************************************************************************)
NextRuntime ==
    \/ Call_Runtime_is_empty
    \/ Call_Runtime_clear
    \/ \E ident \in Ident : Call_Runtime_variable(ident)
    \/ \E ident \in Ident, write \in {None} \cup {Some(v) : v \in Value} :
           Call_Runtime_variable_mut(ident, write)
    \/ \E ident \in Ident, value \in Value : Call_Runtime_insert_variable(ident, value)
    \/ \E ident \in Ident : Call_Runtime_remove_variable(ident)
    \/ \E ident \in Ident, value \in Value : Call_Runtime_swap_variable(ident, value)

SpecRuntime == Init /\ [][NextRuntime]_vars

(***************************************************************************)
(* The compile entry points (lib/vrl/vrl/src/lib.rs).  The parser and the  *)
(* expression compiler are collaborators outside this core: a source is a  *)
(* list of statements, each one of                                         *)
(*   "?"   text that does not parse                                        *)
(*   ".="  assignment of a string to the event root                        *)
(*   "%="  assignment of a string to the metadata root                     *)
(*   "f(x)" call of the function f on the variable x                       *)
(***************************************************************************)
Token == {"?", ".=", "%=", "f(x)"}

Sources == UNION {[1..n -> Token] : n \in 0..MaxSrcLen}

\* the function registry handed to the compiler
StdLib == {"f"}

\* Result::Ok / Result::Err
Ok(v) == [ok |-> TRUE, value |-> v]

Err(e) == [ok |-> FALSE, value |-> e]

\* the AST node a statement parses to
parser_node(token) ==
    CASE token = ".=" -> "AssignEvent"
      [] token = "%=" -> "AssignMetadata"
      [] token = "f(x)" -> "FunctionCall"

\* parser::parse: the AST of the source, or the error of a source holding
\* text that does not parse
parser_parse(source) ==
    IF \E i \in 1..Len(source) : source[i] = "?"
    THEN Err("ParseError")
    ELSE Ok([i \in 1..Len(source) |-> parser_node(source[i])])

\* the details the compiler infers for an assigned string
AssignedDetails == [type_def |-> {"bytes"}, value |-> None]

\* one step of the AST walk: consult the environments, record a diagnostic
\* or mutate `external` (section 4.4: no rollback on failure)
Compiler_compile_node(fns, node, st) ==
    CASE node = "AssignEvent" ->
           IF ExternalEnv_is_read_only_event_path(st.external.read_only_paths, LookupBuf_root)
           THEN [st EXCEPT !.diagnostics = Append(@, "ReadOnlyViolation")]
           ELSE [st EXCEPT !.external.target =
                               ExternalEnv_update_target(@, AssignedDetails)]
      [] node = "AssignMetadata" ->
           IF ExternalEnv_is_read_only_metadata_path(st.external.read_only_paths, LookupBuf_root)
           THEN [st EXCEPT !.diagnostics = Append(@, "ReadOnlyViolation")]
           ELSE [st EXCEPT !.external.metadata =
                               ExternalEnv_update_metadata(@, AssignedDetails.type_def)]
      [] node = "FunctionCall" ->
           IF "f" \notin fns
           THEN [st EXCEPT !.diagnostics = Append(@, "UndefinedFunction")]
           ELSE IF LocalEnv_variable(st.local, "x") = None
           THEN [st EXCEPT !.diagnostics = Append(@, "UndefinedVariable")]
           ELSE st

RECURSIVE Compiler_compile_from(_, _, _, _)
Compiler_compile_from(fns, ast, i, st) ==
    IF i > Len(ast) THEN st
    ELSE Compiler_compile_from(fns, ast, i + 1, Compiler_compile_node(fns, ast[i], st))

\* Compiler::compile: the program, or every diagnostic of the walk
Compiler_compile(fns, ast, external, local_env) ==
    LET st == Compiler_compile_from(fns, ast, 1,
                  [external |-> external, local |-> local_env, diagnostics |-> <<>>])
    IN [ret |-> IF st.diagnostics = <<>> THEN Ok(ast) ELSE Err(st.diagnostics),
        external |-> st.external]

\* faulty variant: the statements before the text that does not parse are
\* compiled all the same
compile_with_state_recovering(source, fns, external, local_env) ==
    LET parsed == parser_parse(source) IN
    IF ~parsed.ok
    THEN LET bad == CHOOSE i \in 1..Len(source) :
                        source[i] = "?" /\ \A j \in 1..(i - 1) : source[j] # "?"
             r == Compiler_compile(fns, parser_parse(SubSeq(source, 1, bad - 1)).value,
                                   external, local_env)
         IN [ret |-> Err(<<parsed.value>>), external |-> r.external, compiled |-> TRUE]
    ELSE LET r == Compiler_compile(fns, parsed.value, external, local_env)
         IN [ret |-> r.ret, external |-> r.external, compiled |-> TRUE]

\* `compiled` tells whether Compiler::compile was reached
compile_with_state(source, fns, external, local_env) ==
    LET parsed == parser_parse(source) IN
    IF ~parsed.ok
    THEN [ret |-> Err(<<parsed.value>>), external |-> external, compiled |-> FALSE]
    ELSE LET r == Compiler_compile(fns, parsed.value, external, local_env)
         IN [ret |-> r.ret, external |-> r.external, compiled |-> TRUE]

\* faulty variant: the program is compiled against a copy of `external`
compile_with_external_on_copy(source, fns, external) ==
    [compile_with_state(source, fns, external, LocalEnv_default)
        EXCEPT !.external = external]

compile_with_external(source, fns, external) ==
    compile_with_state(source, fns, external, LocalEnv_default)

compile(source, fns) ==
    compile_with_external(source, fns, ExternalEnv_default)

\* the ExternalEnv the host holds
External ==
    [target |-> target, metadata |-> metadata, custom |-> custom,
     read_only_paths |-> read_only_paths]

\* the LocalEnv values a host passes to compile_with_state
LocalInputs ==
    {LocalEnv_default,
     LocalEnv_insert_variable(LocalEnv_default, "x", AssignedDetails)}

Call_compile(source, fns) ==
    LET r == compile(source, fns) IN
    /\ call' = [op |-> "compile", source |-> source, fns |-> fns,
                ret |-> r.ret, compiled |-> r.compiled]
    /\ UNCHANGED <<local, externalVars, runtimeVars, metricsVars, counterVars, filter_list>>

Call_compile_with_external(source, fns) ==
    LET r == compile_with_external(source, fns, External) IN
    /\ target' = r.external.target
    /\ metadata' = r.external.metadata
    /\ custom' = r.external.custom
    /\ read_only_paths' = r.external.read_only_paths
    /\ call' = [op |-> "compile_with_external", source |-> source, fns |-> fns,
                ret |-> r.ret, compiled |-> r.compiled]
    /\ UNCHANGED <<local, sealed, runtimeVars, metricsVars, counterVars, filter_list>>

Call_compile_with_state(source, fns, local_arg) ==
    LET r == compile_with_state(source, fns, External, local_arg) IN
    /\ target' = r.external.target
    /\ metadata' = r.external.metadata
    /\ custom' = r.external.custom
    /\ read_only_paths' = r.external.read_only_paths
    /\ call' = [op |-> "compile_with_state", source |-> source, fns |-> fns,
                local |-> local_arg, ret |-> r.ret, compiled |-> r.compiled]
    /\ UNCHANGED <<local, sealed, runtimeVars, metricsVars, counterVars, filter_list>>

(***************************************************************************)
(* SpecCompile: a host that builds an ExternalEnv, may declare everything  *)
(* read-only, and compiles sources against it                              *)
(***************************************************************************)
NextCompile ==
    \/ Call_read_only
    \/ \E source \in Sources : Call_compile(source, StdLib)
    \/ \E source \in Sources : Call_compile_with_external(source, StdLib)
    \/ \E source \in Sources, local_arg \in LocalInputs :
           Call_compile_with_state(source, StdLib, local_arg)

SpecCompile == Init /\ [][NextCompile]_vars

(***************************************************************************)
(* Metrics initialisation (lib/vector-core/src/metrics/mod.rs).            *)
(* CONTROLLER is the OnceCell<Controller>, RECORDER the recorder installed *)
(* in the metrics crate, registry the keys registered with the             *)
(* VectorRecorder.                                                         *)
(***************************************************************************)
\* what std::env::var gives for one variable: unset, or its value
EnvValue == {None, Some("true"), Some("false")}

\* the two variables the module reads
Env == [DISABLE_INTERNAL_METRICS_CORE : EnvValue,
        DISABLE_INTERNAL_METRICS_TRACING_INTEGRATION : EnvValue]

metrics_enabled(env) == env.DISABLE_INTERNAL_METRICS_CORE # Some("true")

tracing_context_layer_enabled(env) ==
    env.DISABLE_INTERNAL_METRICS_TRACING_INTEGRATION # Some("true")

\* VectorRecorder::new_global() / VectorRecorder::new_test()
VectorRecorder == {"Global", "ThreadLocal"}

\* a boxed recorder: the NoopRecorder, or a VectorRecorder with or without
\* the tracing context layer
BoxedRecorder ==
    [recorder : {"Noop"} \cup VectorRecorder, layered : BOOLEAN]

\* metric names: one without an alias and the three deprecated ones
MetricName ==
    {"test", "component_sent_events_total", "component_sent_bytes_total",
     "component_received_bytes_total"}

\* a metric key: its name and its component_kind tag, if it carries one
Key == [name : MetricName,
        component_kind : {None, Some("sink"), Some("source")}]

CARDINALITY_KEY_NAME == "internal_metrics_cardinality_total"

\* Metric::tag_matches("component_kind", value)
Metric_tag_matches(metric, value) == metric.component_kind = Some(value)

\* the registry's counters in the order the visit meets them
RECURSIVE Registry_visit_counters(_)
Registry_visit_counters(counters) ==
    IF counters = {} THEN <<>>
    ELSE LET key == CHOOSE k \in counters : TRUE
         IN <<key>> \o Registry_visit_counters(counters \ {key})

\* faulty variant: every metric gets an alias
alias_every_metric(metric) ==
    <<[metric EXCEPT !.name = "processed_events_total"]>>

\* the alias pushed for metrics[i], if it carries a deprecated name
capture_metrics_alias(metric) ==
    CASE metric.name = "component_sent_events_total" ->
           <<[metric EXCEPT !.name = "processed_events_total"]>>
      [] metric.name = "component_sent_bytes_total"
             /\ Metric_tag_matches(metric, "sink") ->
           <<[metric EXCEPT !.name = "processed_bytes_total"]>>
      [] metric.name = "component_received_bytes_total"
             /\ Metric_tag_matches(metric, "source") ->
           <<[metric EXCEPT !.name = "processed_bytes_total"]>>
      [] OTHER -> <<>>

\* the loop `for i in 0..metrics.len()` over the metrics captured so far
RECURSIVE capture_metrics_aliases(_, _)
capture_metrics_aliases(metrics, i) ==
    IF i > Len(metrics) THEN <<>>
    ELSE capture_metrics_alias(metrics[i]) \o capture_metrics_aliases(metrics, i + 1)

\* Controller::capture_metrics over the registry's counters (the values of
\* the counters are not modelled, gauges and histograms are not registered)
Controller_capture_metrics(counters) ==
    LET captured == Registry_visit_counters(counters)
        metrics == captured \o capture_metrics_aliases(captured, 1)
    IN Append(metrics, [name |-> CARDINALITY_KEY_NAME, component_kind |-> None,
                        value |-> Len(metrics) + 1])

\* OnceCell::set: stores the value only in an empty cell
OnceCell_set(cell, value) ==
    IF cell = None THEN [cell |-> Some(value), ok |-> TRUE]
    ELSE [cell |-> cell, ok |-> FALSE]

\* metrics::set_boxed_recorder: installs the recorder only if none is
set_boxed_recorder(installed, recorder) ==
    IF installed = None THEN [installed |-> Some(recorder), ok |-> TRUE]
    ELSE [installed |-> installed, ok |-> FALSE]

\* faulty variant: every call installs its controller and recorder anew
init_overwriting(env, recorder, controller, installed) ==
    IF ~metrics_enabled(env)
    THEN [ret |-> Ok("()"), CONTROLLER |-> controller,
          RECORDER |-> Some([recorder |-> "Noop", layered |-> FALSE])]
    ELSE [ret |-> Ok("()"), CONTROLLER |-> Some(recorder),
          RECORDER |-> Some([recorder |-> recorder,
                             layered |-> tracing_context_layer_enabled(env)])]

\* init(recorder) on the cell `controller` and the installed recorder
init(env, recorder, controller, installed) ==
    IF ~metrics_enabled(env)
    THEN LET r == set_boxed_recorder(installed, [recorder |-> "Noop", layered |-> FALSE])
         IN [ret |-> IF r.ok THEN Ok("()") ELSE Err("AlreadyInitialized"),
             CONTROLLER |-> controller, RECORDER |-> r.installed]
    ELSE LET c == OnceCell_set(controller, recorder) IN
         IF ~c.ok
         THEN [ret |-> Err("AlreadyInitialized"),
               CONTROLLER |-> c.cell, RECORDER |-> installed]
         ELSE LET r == set_boxed_recorder(installed,
                           [recorder |-> recorder,
                            layered |-> tracing_context_layer_enabled(env)])
              IN [ret |-> IF r.ok THEN Ok("()") ELSE Err("AlreadyInitialized"),
                  CONTROLLER |-> c.cell, RECORDER |-> r.installed]

init_global(env, controller, installed) == init(env, "Global", controller, installed)

init_test(env, controller, installed) == init(env, "ThreadLocal", controller, installed)

\* faulty variant: a missing controller is made up on the spot
get_or_default(controller) ==
    IF controller = None THEN Ok("Global") ELSE Ok(controller[1])

Controller_get(controller) ==
    IF controller = None THEN Err("NotInitialized") ELSE Ok(controller[1])

Call_init_global(env) ==
    LET r == init_global(env, CONTROLLER, RECORDER) IN
    /\ CONTROLLER' = r.CONTROLLER
    /\ RECORDER' = r.RECORDER
    /\ initialised' = (initialised \/ r.ret.ok)
    /\ call' = [op |-> "init_global", env |-> env, ret |-> r.ret]
    /\ UNCHANGED <<local, externalVars, runtimeVars, registry, counterVars, filter_list>>

Call_init_test(env) ==
    LET r == init_test(env, CONTROLLER, RECORDER) IN
    /\ CONTROLLER' = r.CONTROLLER
    /\ RECORDER' = r.RECORDER
    /\ initialised' = (initialised \/ r.ret.ok)
    /\ call' = [op |-> "init_test", env |-> env, ret |-> r.ret]
    /\ UNCHANGED <<local, externalVars, runtimeVars, registry, counterVars, filter_list>>

Call_Controller_get ==
    /\ call' = [op |-> "Controller::get", ret |-> Controller_get(CONTROLLER)]
    /\ UNCHANGED <<local, externalVars, runtimeVars, metricsVars, counterVars, filter_list>>

\* reset() on the handle Controller::get() gave
Call_Controller_reset ==
    /\ Controller_get(CONTROLLER).ok
    /\ registry' = {}
    /\ call' = [op |-> "Controller::reset"]
    /\ UNCHANGED <<local, externalVars, runtimeVars, CONTROLLER, RECORDER, initialised, counterVars, filter_list>>

\* capture_metrics() on the handle Controller::get() gave
Call_Controller_capture_metrics ==
    /\ Controller_get(CONTROLLER).ok
    /\ call' = [op |-> "Controller::capture_metrics",
                ret |-> Controller_capture_metrics(registry)]
    /\ UNCHANGED <<local, externalVars, runtimeVars, metricsVars, counterVars, filter_list>>

\* metrics::counter!(key): the installed recorder, if it is a
\* VectorRecorder, registers the key
Call_counter(key) ==
    /\ Cardinality(registry \cup {key}) <= MaxKeys
    /\ registry' = IF RECORDER # None /\ RECORDER[1].recorder \in VectorRecorder
                   THEN registry \cup {key}
                   ELSE registry
    /\ call' = [op |-> "counter!", key |-> key]
    /\ UNCHANGED <<local, externalVars, runtimeVars, CONTROLLER, RECORDER, initialised, counterVars, filter_list>>

(***************************************************************************)
(* SpecMetrics: one process calling the metrics entry points, the          *)
(* environment variables read afresh by every init call                    *)
(***************************************************************************)
NextMetrics ==
    \/ \E env \in Env : Call_init_global(env)
    \/ \E env \in Env : Call_init_test(env)
    \/ Call_Controller_get
    \/ Call_Controller_reset
    \/ Call_Controller_capture_metrics
    \/ \E key \in Key : Call_counter(key)

SpecMetrics == Init /\ [][NextMetrics]_vars

(***************************************************************************)
(* update_counter! (lib/vector-core/src/metrics/mod.rs): one call site,    *)
(* its static PREVIOUS_VALUE and the threads inside the macro.  A thread   *)
(* is "idle" outside the macro, at "loop" at the head of the loop, and at  *)
(* "emit" between a successful compare-exchange and counter!(label, delta).*)
(* `emitted` is the sum of the deltas handed to counter!, `supplied` the   *)
(* largest $value of any call so far.                                      *)
(***************************************************************************)
CounterValue == 0..MaxValue

\* the value the atomic currently holds
AtomicU64_current(atomic) == atomic[Len(atomic)]

\* the values a Relaxed load by a thread may read: the one it has seen last
\* or any later one in the modification order
AtomicU64_readable(atomic, seen) == seen..Len(atomic)

\* faulty variant: a plain store, the exchange succeeds whatever is stored
exchange_unconditionally(atomic, current) == TRUE

\* compare_exchange_weak can succeed only on the current value
AtomicU64_compare_exchange_ok(atomic, current) ==
    AtomicU64_current(atomic) = current

\* faulty variant: a value equal to the previous one is not ignored
ignores_smaller_only(new_value, previous_value) == new_value < previous_value

\* `if new_value <= previous_value { break; }`
update_counter_ignores(new_value, previous_value) == new_value <= previous_value

\* `let delta = new_value - previous_value;`
update_counter_delta(new_value, previous_value) == new_value - previous_value

\* update_counter!(label, value): evaluate $value and load PREVIOUS_VALUE
Step_load(t, value, i) ==
    /\ threads[t].pc = "idle"
    /\ i \in AtomicU64_readable(PREVIOUS_VALUE, threads[t].seen)
    /\ threads' = [threads EXCEPT ![t] = [@ EXCEPT !.pc = "loop",
                                                  !.new_value = value,
                                                  !.previous_value = PREVIOUS_VALUE[i],
                                                  !.seen = i]]
    /\ supplied' = IF value > supplied THEN value ELSE supplied
    /\ call' = [op |-> "update_counter!", thread |-> t, value |-> value, at |-> "load"]
    /\ UNCHANGED <<local, externalVars, runtimeVars, metricsVars, PREVIOUS_VALUE, emitted, filter_list>>

\* the value is not larger than the previous one: leave without emitting
Step_ignore(t) ==
    /\ threads[t].pc = "loop"
    /\ update_counter_ignores(threads[t].new_value, threads[t].previous_value)
    /\ threads' = [threads EXCEPT ![t].pc = "idle"]
    /\ call' = [op |-> "update_counter!", thread |-> t,
                value |-> threads[t].new_value, at |-> "return", emitted |-> None]
    /\ UNCHANGED <<local, externalVars, runtimeVars, metricsVars, PREVIOUS_VALUE, emitted,
                   supplied,
                   filter_list>>

\* compare_exchange_weak returns Ok: new_value is stored, delta computed
Step_compare_exchange_ok(t) ==
    /\ threads[t].pc = "loop"
    /\ ~update_counter_ignores(threads[t].new_value, threads[t].previous_value)
    /\ AtomicU64_compare_exchange_ok(PREVIOUS_VALUE, threads[t].previous_value)
    /\ PREVIOUS_VALUE' = Append(PREVIOUS_VALUE, threads[t].new_value)
    /\ threads' = [threads EXCEPT ![t] =
                       [@ EXCEPT !.pc = "emit",
                                 !.seen = Len(PREVIOUS_VALUE) + 1,
                                 !.delta = update_counter_delta(threads[t].new_value,
                                                                threads[t].previous_value)]]
    /\ call' = [op |-> "update_counter!", thread |-> t,
                value |-> threads[t].new_value, at |-> "compare_exchange_weak"]
    /\ UNCHANGED <<local, externalVars, runtimeVars, metricsVars, emitted, supplied, filter_list>>

\* compare_exchange_weak returns Err(value): another thread has written, or
\* the exchange failed spuriously; value becomes the previous value
Step_compare_exchange_err(t, i) ==
    /\ threads[t].pc = "loop"
    /\ ~update_counter_ignores(threads[t].new_value, threads[t].previous_value)
    /\ i \in AtomicU64_readable(PREVIOUS_VALUE, threads[t].seen)
    /\ threads' = [threads EXCEPT ![t] = [@ EXCEPT !.previous_value = PREVIOUS_VALUE[i],
                                                  !.seen = i]]
    /\ call' = [op |-> "update_counter!", thread |-> t,
                value |-> threads[t].new_value, at |-> "compare_exchange_weak"]
    /\ UNCHANGED <<local, externalVars, runtimeVars, metricsVars, PREVIOUS_VALUE, emitted,
                   supplied,
                   filter_list>>

\* counter!(label, delta), then leave
Step_counter(t) ==
    /\ threads[t].pc = "emit"
    /\ emitted' = emitted + threads[t].delta
    /\ threads' = [threads EXCEPT ![t].pc = "idle"]
    /\ call' = [op |-> "update_counter!", thread |-> t,
                value |-> threads[t].new_value, at |-> "return",
                emitted |-> Some(threads[t].delta)]
    /\ UNCHANGED <<local, externalVars, runtimeVars, metricsVars, PREVIOUS_VALUE, supplied, filter_list>>

(***************************************************************************)
(* SpecCounter: the threads run through the call site in any interleaving  *)
(***************************************************************************)
NextCounter ==
    \E t \in Thread :
        \/ \E value \in CounterValue, i \in 1..(MaxValue + 1) : Step_load(t, value, i)
        \/ Step_ignore(t)
        \/ Step_compare_exchange_ok(t)
        \/ \E i \in 1..(MaxValue + 1) : Step_compare_exchange_err(t, i)
        \/ Step_counter(t)

SpecCounter == Init /\ [][NextCounter]_vars

(***************************************************************************)
(* FilterList (src/sources/host_metrics/mod.rs): the includes and excludes *)
(* lists of shell-style patterns a name is matched against.  A name is a   *)
(* string over Char; a pattern is a string over Char, `?` and `*`.         *)
(***************************************************************************)
Char == {"a", "b"}

\* the values handed to contains(): names of up to MaxNameLen characters
Names == UNION {[1..n -> Char] : n \in 0..MaxNameLen}

\* the patterns a list is made of
Patterns == {<<"a">>, <<"a", "*">>, <<"?">>, <<"b", "a">>}

\* glob::Pattern::matches: `?` matches one character, `*` any sequence
RECURSIVE Pattern_matches(_, _)
Pattern_matches(pattern, s) ==
    IF pattern = <<>> THEN s = <<>>
    ELSE IF Head(pattern) = "*"
         THEN \/ Pattern_matches(Tail(pattern), s)
              \/ s # <<>> /\ Pattern_matches(pattern, Tail(s))
         ELSE /\ s # <<>>
              /\ Head(pattern) \in {"?", Head(s)}
              /\ Pattern_matches(Tail(pattern), Tail(s))

PatternWrapper_matches_str(self, s) == Pattern_matches(self, s)

\* Vec<PatternWrapper> of up to MaxPatterns patterns
PatternLists == UNION {[1..n -> Patterns] : n \in 0..MaxPatterns}

FilterLists ==
    [includes : {None} \cup {Some(l) : l \in PatternLists},
     excludes : {None} \cup {Some(l) : l \in PatternLists}]

\* faulty variant: an excludes list rejects the absent value
contains_absent_excluded(self, value) ==
    /\ CASE self.includes = None -> TRUE
         [] self.includes # None /\ value = None -> FALSE
         [] OTHER -> \E i \in 1..Len(self.includes[1]) :
                         PatternWrapper_matches_str(self.includes[1][i], value[1])
    /\ CASE self.excludes = None -> TRUE
         [] self.excludes # None /\ value = None -> FALSE
         [] OTHER -> ~\E i \in 1..Len(self.excludes[1]) :
                          PatternWrapper_matches_str(self.excludes[1][i], value[1])

\* the two matches on (&self.includes, value) and (&self.excludes, value)
FilterList_contains(self, value) ==
    /\ CASE self.includes = None -> TRUE
         [] self.includes # None /\ value = None -> FALSE
         [] OTHER -> \E i \in 1..Len(self.includes[1]) :
                         PatternWrapper_matches_str(self.includes[1][i], value[1])
    /\ CASE self.excludes = None -> TRUE
         [] self.excludes # None /\ value = None -> TRUE
         [] OTHER -> ~\E i \in 1..Len(self.excludes[1]) :
                          PatternWrapper_matches_str(self.excludes[1][i], value[1])

FilterList_contains_str(self, value) == FilterList_contains(self, value)

Call_FilterList_contains_str(value) ==
    /\ call' = [op |-> "FilterList::contains_str", value |-> value,
                ret |-> FilterList_contains_str(filter_list, value)]
    /\ UNCHANGED <<local, externalVars, runtimeVars, metricsVars, counterVars, filter_list>>

(***************************************************************************)
(* SpecFilter: any FilterList of the configuration, asked about any value  *)
(***************************************************************************)
InitFilter ==
    /\ local = LocalEnv_default
    /\ Constructed(ExternalEnv_default)
    /\ variables = Runtime_default
    /\ MetricsUninitialised
    /\ CounterInitial
    /\ filter_list \in FilterLists
    /\ call = [op |-> "new"]

NextFilter ==
    \E value \in {None} \cup {Some(name) : name \in Names} :
        Call_FilterList_contains_str(value)

SpecFilter == InitFilter /\ [][NextFilter]_vars

(***************************************************************************)
(* Properties of LocalEnv (checked under SpecLocal)                        *)
(***************************************************************************)
\* C1: after A.merge(B), every identifier bound in both A and B is bound to
\* the join (union) of the two types it had in A and in B.
C1_MergeJoinsShared ==
    call.op = "LocalEnv::merge" =>
        \A x \in (DOMAIN call.self) \cap (DOMAIN call.other) :
            /\ x \in DOMAIN local
            /\ local[x].type_def = call.self[x].type_def \cup call.other[x].type_def

\* branch envs binding x to string and to integer merge to x: string-or-integer
C1_Witness ==
    /\ call.op = "LocalEnv::merge"
    /\ \E x \in (DOMAIN call.self) \cap (DOMAIN call.other) :
           /\ call.self[x].type_def = {"bytes"}
           /\ call.other[x].type_def = {"integer"}
           /\ local[x].type_def = {"bytes", "integer"}

C3_ApplyChildScope ==
    call.op = "LocalEnv::apply_child_scope" =>
        /\ \A x \in (DOMAIN call.self) \cap (DOMAIN call.other) :
               x \in DOMAIN local /\ local[x] = call.other[x]
        /\ \A x \in (DOMAIN call.other) \ (DOMAIN call.self) : x \notin DOMAIN local
        /\ \A x \in (DOMAIN call.self) \ (DOMAIN call.other) :
               x \in DOMAIN local /\ local[x] = call.self[x]

\* the child overwrites x, bound in the parent, and introduces y
C3_Witness ==
    /\ call.op = "LocalEnv::apply_child_scope"
    /\ \E x, y \in Ident :
           /\ x \in (DOMAIN call.self) \cap (DOMAIN call.other)
           /\ call.self[x] # call.other[x]
           /\ local[x] = call.other[x]
           /\ y \in (DOMAIN call.other) \ (DOMAIN call.self)
           /\ y \notin DOMAIN local

(***************************************************************************)
(* Properties of the read-only rules (checked under SpecRules)             *)
(***************************************************************************)
\* q is p or lies below p
IsAtOrBelow(q, p) == Len(p) <= Len(q) /\ SubSeq(q, 1, Len(p)) = p

\* q lies strictly below p
IsStrictlyBelow(q, p) == IsAtOrBelow(q, p) /\ q # p

\* C4: with the single rule {path: p, recursive: false, root: Event} stored,
\* p itself is a read-only event path, no strict descendant of p is, and
\* every ancestor of p, the root path included, is.
C4_NonRecursiveRule ==
    \A p \in RulePaths :
        read_only_paths = {[path |-> p, recursive |-> FALSE, root |-> "Event"]} =>
            /\ ExternalEnv_is_read_only_event_path(read_only_paths, p)
            /\ \A q \in QueryPaths :
                   /\ IsStrictlyBelow(q, p) =>
                          ~ExternalEnv_is_read_only_event_path(read_only_paths, q)
                   /\ IsAtOrBelow(p, q) =>
                          ExternalEnv_is_read_only_event_path(read_only_paths, q)

\* the single non-recursive rule on a.b: a.b and a are read-only, a.b.a is not
C4_Witness ==
    /\ read_only_paths =
           {[path |-> <<"a", "b">>, recursive |-> FALSE, root |-> "Event"]}
    /\ ExternalEnv_is_read_only_event_path(read_only_paths, <<"a", "b">>)
    /\ ExternalEnv_is_read_only_event_path(read_only_paths, <<"a">>)
    /\ ExternalEnv_is_read_only_event_path(read_only_paths, LookupBuf_root)
    /\ ~ExternalEnv_is_read_only_event_path(read_only_paths, <<"a", "b", "a">>)

\* C5: a stored rule {p, recursive: true, R} makes p and every descendant of
\* p read-only under R; the same rule alone with recursive: false leaves the
\* strict descendants of p mutable.
C5_RecursiveRule ==
    /\ \A r \in read_only_paths : \A q \in QueryPaths :
           (r.recursive /\ IsAtOrBelow(q, r.path)) =>
               ExternalEnv_is_read_only_path(read_only_paths, q, r.root)
    /\ \A p \in RulePaths, R \in PathRoot :
           read_only_paths = {[path |-> p, recursive |-> FALSE, root |-> R]} =>
               \A q \in QueryPaths :
                   IsStrictlyBelow(q, p) =>
                       ~ExternalEnv_is_read_only_path(read_only_paths, q, R)

\* the single recursive rule on a.b makes a.b.a read-only
C5_Witness ==
    /\ read_only_paths =
           {[path |-> <<"a", "b">>, recursive |-> TRUE, root |-> "Event"]}
    /\ ExternalEnv_is_read_only_path(read_only_paths, <<"a", "b", "a">>, "Event")
    /\ ExternalEnv_is_read_only_path(read_only_paths, <<"a", "b">>, "Event")

\* C6 as stated: a stored rule whose path is an ancestor of or equal to the
\* queried path makes the queried path read-only, whatever its recursive flag.
C6_DescendantsProtected ==
    \A r \in read_only_paths : \A q \in QueryPaths :
        IsAtOrBelow(q, r.path) =>
            ExternalEnv_is_read_only_path(read_only_paths, q, r.root)

\* C6 amended: a stored rule whose path is a descendant of or equal to the
\* queried path makes the queried path read-only, whatever its recursive
\* flag (an ancestor of a protected path is itself protected).
C6_AncestorsProtected ==
    \A r \in read_only_paths : \A q \in QueryPaths :
        IsAtOrBelow(r.path, q) =>
            ExternalEnv_is_read_only_path(read_only_paths, q, r.root)

\* a non-recursive rule below the root: its strict ancestors are read-only
C6_Witness ==
    \E r \in read_only_paths : \E q \in QueryPaths :
        /\ ~r.recursive
        /\ IsStrictlyBelow(r.path, q)
        /\ ExternalEnv_is_read_only_path(read_only_paths, q, r.root)

\* C8: the answer for a root depends only on the rules of that root; with
\* only Event rules stored no metadata path is read-only, and with only
\* Metadata rules stored no event path is.
C8_RootSeparation ==
    /\ \A q \in QueryPaths, root \in PathRoot :
           ExternalEnv_is_read_only_path(read_only_paths, q, root)
               = ExternalEnv_is_read_only_path(
                     {r \in read_only_paths : r.root = root}, q, root)
    /\ (\A r \in read_only_paths : r.root = "Event") =>
           \A q \in QueryPaths :
               ~ExternalEnv_is_read_only_metadata_path(read_only_paths, q)
    /\ (\A r \in read_only_paths : r.root = "Metadata") =>
           \A q \in QueryPaths :
               ~ExternalEnv_is_read_only_event_path(read_only_paths, q)

\* only Event rules stored: a read-only event path that is a mutable
\* metadata path
C8_Witness ==
    /\ read_only_paths # {}
    /\ \A r \in read_only_paths : r.root = "Event"
    /\ \E q \in QueryPaths :
           /\ ExternalEnv_is_read_only_event_path(read_only_paths, q)
           /\ ~ExternalEnv_is_read_only_metadata_path(read_only_paths, q)

\* C9: a set_read_only_path call with a triple already stored changes
\* neither the rule set nor any is_read_only answer; with a triple not yet
\* stored it adds exactly that one rule, also next to rules that differ
\* from it in a single field.
C9_SetReadOnlyPathDedup ==
    [][call'.op = "ExternalEnv::set_read_only_path" =>
          LET rule == [path |-> call'.path, recursive |-> call'.recursive,
                       root |-> call'.root]
          IN  /\ rule \in read_only_paths =>
                     /\ read_only_paths' = read_only_paths
                     /\ \A q \in QueryPaths, root \in PathRoot :
                            ExternalEnv_is_read_only_path(read_only_paths', q, root)
                                = ExternalEnv_is_read_only_path(read_only_paths, q, root)
              /\ rule \notin read_only_paths =>
                     /\ read_only_paths' = read_only_paths \cup {rule}
                     /\ Cardinality(read_only_paths')
                            = Cardinality(read_only_paths) + 1]_vars

\* a triple inserted a second time, next to a rule on the same path and root
\* with the other recursive flag
C9_Witness ==
    /\ call.op = "ExternalEnv::set_read_only_path"
    /\ ~call.inserted
    /\ \E r1, r2 \in read_only_paths :
           /\ r1.path = call.path /\ r1.root = call.root
           /\ r1.recursive = call.recursive
           /\ r2.path = r1.path /\ r2.root = r1.root
           /\ r2.recursive # r1.recursive

(***************************************************************************)
(* Properties of the ExternalEnv (checked under Spec)                      *)
(***************************************************************************)
AllReadOnly ==
    \A q \in QueryPaths, root \in PathRoot :
        ExternalEnv_is_read_only_path(read_only_paths, q, root)

\* C7: once read_only() has been applied, every event path and every
\* metadata path, the root path included, is read-only, and stays so after
\* every later operation.
C7_ReadOnlyMarksEverything == sealed => AllReadOnly

\* read_only() applied to an environment that already holds a rule, and a
\* later operation on it
C7_Witness ==
    /\ sealed
    /\ call.op = "ExternalEnv::update_target"
    /\ \E r \in read_only_paths : r.path # LookupBuf_root
    /\ ExternalEnv_is_read_only_event_path(read_only_paths, LookupBuf_root)
    /\ ExternalEnv_is_read_only_metadata_path(read_only_paths, LookupBuf_root)
    /\ ExternalEnv_is_read_only_event_path(read_only_paths, <<"b", "a">>)
    /\ ExternalEnv_is_read_only_metadata_path(read_only_paths, <<"b", "a">>)

\* C10: set_external_context::<T>(v) makes get_external_context::<T>() yield
\* v and no earlier instance, leaves the answer for every other type as it
\* was, and the store never holds two instances of one type; a type with no
\* instance stored yields nothing.
C10_ContextLastWriteWins ==
    [][call'.op = "ExternalEnv::set_external_context" =>
          /\ ExternalEnv_get_external_context(custom', call'.type) = Some(call'.data)
          /\ {e \in custom' : e[1] = call'.type} = {<<call'.type, call'.data>>}
          /\ \A U \in TypeId \ {call'.type} :
                 /\ ExternalEnv_get_external_context(custom', U)
                        = ExternalEnv_get_external_context(custom, U)
                 /\ {e \in custom' : e[1] = U} = {e \in custom : e[1] = U}
                 /\ {e \in custom : e[1] = U} = {} =>
                        ExternalEnv_get_external_context(custom', U) = None]_vars

\* T set to 1 and then to 2, U never set
C10_Witness ==
    /\ call.op = "ExternalEnv::set_external_context"
    /\ call.type = "T" /\ call.data = 2 /\ call.replaced = Some(1)
    /\ ExternalEnv_get_external_context(custom, "T") = Some(2)
    /\ ExternalEnv_get_external_context(custom, "U") = None

\* C11: swap_external_context(ctx) installs exactly ctx and returns exactly
\* the previous store; swapping the returned store back in restores every
\* get_external_context answer; target, metadata and the read-only rules
\* are the same before and after a swap.
C11_SwapExternalContext ==
    [][call'.op = "ExternalEnv::swap_external_context" =>
          /\ custom' = call'.ctx
          /\ call'.ret = custom
          /\ target' = target
          /\ metadata' = metadata
          /\ read_only_paths' = read_only_paths
          /\ (call.op = "ExternalEnv::swap_external_context"
                  /\ call'.ctx = call.ret) =>
                 \A type \in TypeId :
                     ExternalEnv_get_external_context(custom', type)
                         = ExternalEnv_get_external_context(call.ret, type)]_vars

\* a non-empty store swapped for a different one, with a rule stored
C11_Witness ==
    /\ call.op = "ExternalEnv::swap_external_context"
    /\ call.ret # {}
    /\ call.ctx # call.ret
    /\ custom = call.ctx
    /\ read_only_paths # {}
    /\ ExternalEnv_get_external_context(custom, "T") = Some(2)
    /\ ExternalEnv_get_external_context(call.ret, "T") = Some(1)

\* C12: update_target(details) makes the target exactly `details` (so
\* target_kind() is the kind supplied, not a join with the previous one) and
\* changes nothing else; update_metadata(kind) does the same for metadata.
C12_UpdateReplacesOwnField ==
    [][/\ call'.op = "ExternalEnv::update_target" =>
              /\ target' = call'.details
              /\ ExternalEnv_target_kind(target') = call'.details.type_def
              /\ metadata' = metadata
              /\ read_only_paths' = read_only_paths
              /\ custom' = custom
       /\ call'.op = "ExternalEnv::update_metadata" =>
              /\ ExternalEnv_metadata_kind(metadata') = call'.kind
              /\ target' = target
              /\ read_only_paths' = read_only_paths
              /\ custom' = custom]_vars

\* the target narrowed to bytes while rules and context are stored
C12_Witness ==
    /\ call.op = "ExternalEnv::update_target"
    /\ call.details.type_def = {"bytes"}
    /\ ExternalEnv_target_kind(target) = {"bytes"}
    /\ ExternalEnv_metadata_kind(metadata) = {"bytes", "object"}
    /\ read_only_paths # {}
    /\ custom # {}

\* C13: a freshly constructed ExternalEnv has no read-only rule, an empty
\* context store and no constant target value, so no path is read-only;
\* default() gives target and metadata the kind `object of any shape`,
\* new_with_kind the kinds supplied.
C13_FreshExternalEnv ==
    call.op \in {"ExternalEnv::default", "ExternalEnv::new_with_kind"} =>
        /\ read_only_paths = {}
        /\ custom = {}
        /\ \A type \in TypeId : ExternalEnv_get_external_context(custom, type) = None
        /\ target.value = None
        /\ \A q \in QueryPaths :
               /\ ~ExternalEnv_is_read_only_event_path(read_only_paths, q)
               /\ ~ExternalEnv_is_read_only_metadata_path(read_only_paths, q)
        /\ call.op = "ExternalEnv::default" =>
               /\ ExternalEnv_target_kind(target) = {"object"}
               /\ ExternalEnv_metadata_kind(metadata) = {"object"}
        /\ call.op = "ExternalEnv::new_with_kind" =>
               /\ ExternalEnv_target_kind(target) = call.target
               /\ ExternalEnv_metadata_kind(metadata) = call.metadata

\* the environment built by default()
C13_Witness ==
    /\ call.op = "ExternalEnv::default"
    /\ ExternalEnv_target_kind(target) = {"object"}
    /\ ExternalEnv_metadata_kind(metadata) = {"object"}
    /\ ~ExternalEnv_is_read_only_event_path(read_only_paths, LookupBuf_root)
    /\ ~ExternalEnv_is_read_only_metadata_path(read_only_paths, <<"a">>)

\* C26: self.apply_child_scope(other) and self.merge(other) leave self with
\* the identifier set it had, and every identifier bound in self alone
\* keeps its Details.
C26_ScopeCompositionKeepsNames ==
    call.op \in {"LocalEnv::apply_child_scope", "LocalEnv::merge"} =>
        /\ LocalEnv_variable_idents(local) = LocalEnv_variable_idents(call.self)
        /\ \A ident \in LocalEnv_variable_idents(call.self)
                            \ LocalEnv_variable_idents(call.other) :
               LocalEnv_variable(local, ident) = LocalEnv_variable(call.self, ident)

\* a merge where each side binds an identifier the other does not
C26_Witness ==
    /\ call.op = "LocalEnv::merge"
    /\ LocalEnv_variable_idents(call.self) = {"x"}
    /\ LocalEnv_variable_idents(call.other) = {"y"}
    /\ LocalEnv_variable_idents(local) = {"x"}
    /\ LocalEnv_variable(local, "x") = LocalEnv_variable(call.self, "x")

\* C17: a LocalEnv binds each identifier at most once: whatever operations
\* ran, it is a map from identifiers to details; insert_variable(id, d) on a
\* bound id replaces the binding, so variable(id) returns d, the identifier
\* set gains id only if it was unbound, and the other bindings stay.
C17_OneBindingPerIdent ==
    [][/\ local' \in LocalEnvs
       /\ call'.op = "LocalEnv::insert_variable" =>
              /\ LocalEnv_variable(local', call'.ident) = Some(call'.details)
              /\ LocalEnv_variable_idents(local')
                     = LocalEnv_variable_idents(local) \cup {call'.ident}
              /\ Cardinality(LocalEnv_variable_idents(local'))
                     = Cardinality(LocalEnv_variable_idents(local))
                           + (IF call'.ident \in LocalEnv_variable_idents(local)
                              THEN 0 ELSE 1)
              /\ \A other \in Ident \ {call'.ident} :
                     LocalEnv_variable(local', other) = LocalEnv_variable(local, other)]_vars

\* insert_variable(x, d2) on an env that bound x to a different d1
C17_Witness ==
    /\ call.op = "LocalEnv::insert_variable"
    /\ call.replaced # None
    /\ call.replaced # Some(call.details)
    /\ LocalEnv_variable(local, call.ident) = Some(call.details)
    /\ LocalEnv_variable_idents(local) = Ident

\* C28: whenever a path is read-only under the single rule
\* {p, recursive: false, R} it is read-only under the single rule
\* {p, recursive: true, R}; and inserting two rules in either order gives
\* the same rule set, hence the same answers.
C28_RecursiveSubsumes ==
    [][call'.op = "ExternalEnv::set_read_only_path" =>
          LET rule == [path |-> call'.path, recursive |-> call'.recursive,
                       root |-> call'.root] IN
          /\ (read_only_paths' = {rule} /\ ~rule.recursive) =>
                 \A q \in QueryPaths, root \in PathRoot :
                     ExternalEnv_is_read_only_path({rule}, q, root) =>
                         ExternalEnv_is_read_only_path(
                             {[rule EXCEPT !.recursive = TRUE]}, q, root)
          /\ \A other \in ReadOnlyPath :
                 ExternalEnv_set_read_only_path(
                     ExternalEnv_set_read_only_path(read_only_paths, rule.path,
                                                    rule.recursive, rule.root),
                     other.path, other.recursive, other.root)
                 = ExternalEnv_set_read_only_path(
                       ExternalEnv_set_read_only_path(read_only_paths, other.path,
                                                      other.recursive, other.root),
                       rule.path, rule.recursive, rule.root)]_vars

\* the single non-recursive rule on a.b: a.b and its ancestors are
\* read-only, as they are under the recursive rule
C28_Witness ==
    /\ call.op = "ExternalEnv::set_read_only_path"
    /\ read_only_paths = {[path |-> <<"a", "b">>, recursive |-> FALSE, root |-> "Event"]}
    /\ ExternalEnv_is_read_only_event_path(read_only_paths, <<"a">>)
    /\ ExternalEnv_is_read_only_event_path(read_only_paths, <<"a", "b">>)
    /\ ~ExternalEnv_is_read_only_event_path(read_only_paths, <<"a", "b", "a">>)
    /\ ExternalEnv_is_read_only_path(
           {[path |-> <<"a", "b">>, recursive |-> TRUE, root |-> "Event"]},
           <<"a", "b", "a">>, "Event")

\* C25: no operation of ExternalEnv removes a rule, and a path that is
\* read-only before a set_read_only_*, read_only, update_target,
\* update_metadata, set_external_context or swap_external_context call is
\* read-only after it.
C25_ReadOnlyIsMonotone ==
    [][/\ read_only_paths \subseteq read_only_paths'
       /\ read_only_paths' # read_only_paths =>
              \A q \in QueryPaths, root \in PathRoot :
                  ExternalEnv_is_read_only_path(read_only_paths, q, root) =>
                      ExternalEnv_is_read_only_path(read_only_paths', q, root)]_vars

\* a metadata rule added while the event field `a` stays protected
C25_Witness ==
    /\ call.op = "ExternalEnv::set_read_only_path"
    /\ call.root = "Metadata"
    /\ call.inserted
    /\ ~sealed
    /\ Cardinality(read_only_paths) = 2
    /\ ExternalEnv_is_read_only_event_path(read_only_paths, <<"a">>)
    /\ ExternalEnv_is_read_only_event_path(read_only_paths, LookupBuf_root)
    /\ ~ExternalEnv_is_read_only_event_path(read_only_paths, <<"b">>)

(***************************************************************************)
(* Properties of Runtime (checked under SpecRuntime)                       *)
(***************************************************************************)
\* C14: swap_variable(id, v) returns what id was bound to before the call
\* (nothing when id was unbound) and afterwards variable(id) returns v, the
\* other identifiers keeping their bindings; so a swap that follows a swap
\* of v on the same id returns v.
C14_SwapVariable ==
    [][call'.op = "Runtime::swap_variable" =>
          /\ call'.ret = Runtime_variable(variables, call'.ident)
          /\ call'.ident \notin DOMAIN variables => call'.ret = None
          /\ Runtime_variable(variables', call'.ident) = Some(call'.value)
          /\ \A other \in Ident \ {call'.ident} :
                 Runtime_variable(variables', other) = Runtime_variable(variables, other)
          /\ (call.op = "Runtime::swap_variable" /\ call.ident = call'.ident) =>
                 call'.ret = Some(call.value)]_vars

\* a bound identifier swapped to a different value, another one bound too
C14_Witness ==
    /\ call.op = "Runtime::swap_variable"
    /\ call.ret # None
    /\ call.ret # Some(call.value)
    /\ Runtime_variable(variables, call.ident) = Some(call.value)
    /\ DOMAIN variables = Ident

\* C29: insert_variable(id, v), swap_variable(id, v) and
\* remove_variable(id) leave the binding of every other identifier as it
\* was, and swap_variable(id, v) leaves the store exactly as
\* insert_variable(id, v) would.
C29_OnlyNamedIdentifier ==
    [][call'.op \in {"Runtime::insert_variable", "Runtime::swap_variable",
                     "Runtime::remove_variable"} =>
          /\ \A other \in Ident \ {call'.ident} :
                 /\ (other \in DOMAIN variables') = (other \in DOMAIN variables)
                 /\ other \in DOMAIN variables => variables'[other] = variables[other]
          /\ call'.op = "Runtime::swap_variable" =>
                 variables' = Runtime_insert_variable(variables, call'.ident, call'.value)
          /\ call'.op = "Runtime::insert_variable" =>
                 variables' = Runtime_swap_variable(variables, call'.ident, call'.value).variables
          /\ call'.op = "Runtime::remove_variable" =>
                 call'.ident \notin DOMAIN variables']_vars

\* a bound identifier removed while the other one stays bound
C29_Witness ==
    /\ call.op = "Runtime::remove_variable"
    /\ call.ident \notin DOMAIN variables
    /\ DOMAIN variables = Ident \ {call.ident}

\* C15: after clear() the store equals a freshly constructed Runtime:
\* is_empty() is true, variable(id) is absent for every id, and every
\* operation gives the result it gives on Runtime::default().
C15_ClearIsFresh ==
    call.op = "Runtime::clear" =>
        /\ variables = Runtime_default
        /\ Runtime_is_empty(variables)
        /\ \A ident \in Ident :
               /\ Runtime_variable(variables, ident) = None
               /\ Runtime_variable_mut(variables, ident) = None
               /\ Runtime_remove_variable(variables, ident)
                      = Runtime_remove_variable(Runtime_default, ident)
               /\ \A value \in Value :
                      /\ Runtime_insert_variable(variables, ident, value)
                             = Runtime_insert_variable(Runtime_default, ident, value)
                      /\ Runtime_swap_variable(variables, ident, value)
                             = Runtime_swap_variable(Runtime_default, ident, value)

\* clear() has just emptied a store that held a binding for every identifier
C15_Witness ==
    /\ call.op = "Runtime::clear"
    /\ DOMAIN call.before = Ident
    /\ Runtime_is_empty(variables)

\* C16: variable(id) and variable_mut(id) on an unbound id return the
\* absence marker; an id is bound only by insert_variable or swap_variable
\* on it, and is unbound after remove_variable on it and after clear();
\* remove_variable on an unbound id changes nothing.
C16_LookupsNeverFail ==
    [][/\ call'.op \in {"Runtime::variable", "Runtime::variable_mut"} =>
              /\ call'.ret = IF call'.ident \in DOMAIN variables
                             THEN Some(variables[call'.ident]) ELSE None
              /\ DOMAIN variables' = DOMAIN variables
       /\ \A ident \in Ident :
              (ident \notin DOMAIN variables /\ ident \in DOMAIN variables') =>
                  /\ call'.op \in {"Runtime::insert_variable", "Runtime::swap_variable"}
                  /\ call'.ident = ident
       /\ call'.op = "Runtime::remove_variable" =>
              /\ Runtime_variable(variables', call'.ident) = None
              /\ call'.ident \notin DOMAIN variables => variables' = variables
       /\ call'.op = "Runtime::clear" =>
              \A ident \in Ident : Runtime_variable(variables', ident) = None]_vars

\* a lookup of an unbound identifier while another one is bound
C16_Witness ==
    /\ call.op \in {"Runtime::variable", "Runtime::variable_mut"}
    /\ call.ident \notin DOMAIN variables
    /\ call.ret = None
    /\ variables # Runtime_default

(***************************************************************************)
(* Properties of the compile entry points (checked under SpecCompile)      *)
(***************************************************************************)
\* C18: when the source does not parse, an entry point returns the
\* diagnostics list holding just the parse error, never reaches the
\* compiler, and leaves the supplied ExternalEnv (target, metadata,
\* read-only rules, context) exactly as it was before the call.
C18_ParseFailureNoSideEffect ==
    [][(/\ call'.op \in {"compile", "compile_with_external", "compile_with_state"}
        /\ ~parser_parse(call'.source).ok) =>
          /\ call'.ret = Err(<<"ParseError">>)
          /\ ~call'.compiled
          /\ External' = External]_vars

\* compile_with_state on `. = "s"` followed by text that does not parse,
\* the target still an object
C18_Witness ==
    /\ call.op = "compile_with_state"
    /\ call.source = <<".=", "?">>
    /\ call.ret = Err(<<"ParseError">>)
    /\ ~call.compiled
    /\ ExternalEnv_target_kind(target) = Kind_object_any
    /\ read_only_paths = {}

\* C19: compile(source, fns) returns what compile_with_external returns on
\* ExternalEnv::default(); compile_with_external(source, fns, ext) returns
\* what compile_with_state(source, fns, ext, LocalEnv::default()) returns
\* and leaves ext as that call leaves it.
C19_EntryPointsAgree ==
    [][/\ call'.op = "compile" =>
              call'.ret = compile_with_external(call'.source, call'.fns,
                                                ExternalEnv_default).ret
       /\ call'.op = "compile_with_external" =>
              LET r == compile_with_state(call'.source, call'.fns, External,
                                          LocalEnv_default)
              IN /\ call'.ret = r.ret
                 /\ External' = r.external]_vars

\* compile_with_external compiled an assignment and narrowed the target
C19_Witness ==
    /\ call.op = "compile_with_external"
    /\ call.source = <<".=", "f(x)">>
    /\ call.ret = Err(<<"UndefinedVariable">>)
    /\ ExternalEnv_target_kind(target) = {"bytes"}
    /\ ExternalEnv_metadata_kind(metadata) = Kind_object_any

(***************************************************************************)
(* Properties of the metrics initialisation (checked under SpecMetrics)    *)
(***************************************************************************)
\* C20: once an init_global/init_test call has returned Ok, every later
\* init call returns Err(AlreadyInitialized), leaves the installed recorder
\* as it is and leaves a stored controller as it is.
C20_InitAtMostOnce ==
    [][(initialised /\ call'.op \in {"init_global", "init_test"}) =>
          /\ call'.ret = Err("AlreadyInitialized")
          /\ RECORDER' = RECORDER
          /\ CONTROLLER # None => CONTROLLER' = CONTROLLER]_vars

\* init_test refused after init_global had stored its controller and recorder
C20_Witness ==
    /\ initialised
    /\ call.op = "init_test"
    /\ call.ret = Err("AlreadyInitialized")
    /\ metrics_enabled(call.env)
    /\ CONTROLLER = Some("Global")
    /\ RECORDER # None
    /\ RECORDER[1].recorder = "Global"

\* C21 as stated: Controller::get() returns Err(NotInitialized) while no
\* init call has succeeded and a handle to the stored controller once one
\* has.
C21_GetAfterAnySuccess ==
    call.op = "Controller::get" =>
        IF initialised
        THEN CONTROLLER # None /\ call.ret = Ok(CONTROLLER[1])
        ELSE call.ret = Err("NotInitialized")

\* C21: Controller::get() returns Err(NotInitialized) exactly while no
\* controller is stored, which includes every state where no init call has
\* succeeded; an init call that succeeds with the metrics core enabled
\* stores the controller of the recorder it installs, a stored controller
\* is never changed, and get() returns a handle to it.
C21_GetAfterEnabledSuccess ==
    [][/\ ~initialised' => CONTROLLER' = None
       /\ CONTROLLER # None => CONTROLLER' = CONTROLLER
       /\ (/\ call'.op \in {"init_global", "init_test"}
           /\ call'.ret.ok
           /\ metrics_enabled(call'.env)) =>
              /\ RECORDER' # None
              /\ CONTROLLER' = Some(RECORDER'[1].recorder)
       /\ call'.op = "Controller::get" =>
              call'.ret = IF CONTROLLER = None THEN Err("NotInitialized")
                          ELSE Ok(CONTROLLER[1])]_vars

\* get() handing out the controller that init_global stored
C21_Witness ==
    /\ call.op = "Controller::get"
    /\ initialised
    /\ call.ret = Ok("Global")
    /\ RECORDER # None
    /\ RECORDER[1].recorder = "Global"

\* the names capture_metrics() adds an alias for
DeprecatedAliasNames ==
    {"component_sent_events_total", "component_sent_bytes_total",
     "component_received_bytes_total"}

\* C22: reset() empties the registry and counter!(key) through an installed
\* VectorRecorder registers key; capture_metrics() on a registry of n
\* distinct counters, none carrying a deprecated-alias name, returns n + 1
\* metrics: the n counters and one internal_metrics_cardinality_total
\* counter of value n + 1; it registers nothing, so a repeated capture
\* returns the same metrics.
C22_CaptureCardinality ==
    [][/\ call'.op = "Controller::reset" => registry' = {}
       /\ (/\ call'.op = "counter!"
           /\ RECORDER # None
           /\ RECORDER[1].recorder \in VectorRecorder) =>
              registry' = registry \cup {call'.key}
       /\ call'.op = "Controller::capture_metrics" =>
              LET ret == call'.ret IN
              /\ registry' = registry
              /\ ret[Len(ret)].name = CARDINALITY_KEY_NAME
              /\ ret[Len(ret)].value = Len(ret)
              /\ (\A key \in registry : key.name \notin DeprecatedAliasNames) =>
                     /\ Len(ret) = Cardinality(registry) + 1
                     /\ {ret[i] : i \in 1..(Len(ret) - 1)} = registry
              /\ call.op = "Controller::capture_metrics" => ret = call.ret]_vars

\* a capture of two registered `test` counters giving three metrics
C22_Witness ==
    /\ call.op = "Controller::capture_metrics"
    /\ Cardinality(registry) = 2
    /\ \A key \in registry : key.name = "test"
    /\ Len(call.ret) = 3
    /\ call.ret[3].value = 3

(***************************************************************************)
(* Properties of update_counter! (checked under SpecCounter)               *)
(***************************************************************************)
\* the value PREVIOUS_VALUE holds
Stored == AtomicU64_current(PREVIOUS_VALUE)

\* C23: the stored previous value is the largest value accepted so far; a
\* call that leaves without emitting had a value not larger than it and
\* leaves it unchanged; a call is accepted only with a strictly larger
\* value, which becomes the stored value, and the call emits exactly once,
\* the difference between its value and the value stored before.
C23_IgnoresNonIncreasing ==
    [][/\ \A i \in 1..Len(PREVIOUS_VALUE') : PREVIOUS_VALUE'[i] <= Stored'
       /\ (call'.at = "return" /\ call'.emitted = None) =>
              /\ call'.value <= Stored
              /\ emitted' = emitted
              /\ PREVIOUS_VALUE' = PREVIOUS_VALUE
       /\ PREVIOUS_VALUE' # PREVIOUS_VALUE =>
              /\ call'.value > Stored
              /\ Stored' = call'.value
              /\ PREVIOUS_VALUE' = Append(PREVIOUS_VALUE, call'.value)
              /\ threads'[call'.thread].pc = "emit"
              /\ threads'[call'.thread].delta = call'.value - Stored
              /\ emitted' = emitted
       /\ (call'.at = "return" /\ call'.emitted # None) =>
              /\ threads[call'.thread].pc = "emit"
              /\ call'.emitted = Some(threads[call'.thread].delta)
              /\ emitted' = emitted + threads[call'.thread].delta
              /\ PREVIOUS_VALUE' = PREVIOUS_VALUE]_vars

\* a call with 2 after 1 had been accepted has emitted 1
C23_Witness ==
    /\ call.op = "update_counter!"
    /\ call.at = "return"
    /\ call.value = 2
    /\ call.emitted = Some(1)
    /\ PREVIOUS_VALUE = <<0, 1, 2>>
    /\ emitted = 2

\* C27: in every interleaving the stored previous value never decreases
\* and every emitted delta is strictly positive; when no thread is inside
\* the macro, the sum of the emitted deltas equals the stored previous
\* value, which equals the largest value any call supplied.
C27_ConcurrentUpdateCounter ==
    /\ \A i \in 1..(Len(PREVIOUS_VALUE) - 1) : PREVIOUS_VALUE[i] <= PREVIOUS_VALUE[i + 1]
    /\ \A t \in Thread : threads[t].pc = "emit" => threads[t].delta > 0
    /\ (call.op = "update_counter!" /\ call.at = "return" /\ call.emitted # None) =>
           call.emitted[1] > 0
    /\ (\A t \in Thread : threads[t].pc = "idle") =>
           /\ emitted = Stored
           /\ Stored = supplied

\* both threads have returned, each having had its value accepted
C27_Witness ==
    /\ \A t \in Thread : threads[t].pc = "idle"
    /\ threads["t1"].new_value = 1
    /\ threads["t1"].delta = 1
    /\ threads["t2"].new_value = 2
    /\ threads["t2"].delta = 1
    /\ PREVIOUS_VALUE = <<0, 1, 2>>
    /\ emitted = 2
    /\ supplied = 2

(***************************************************************************)
(* Properties of FilterList (checked under SpecFilter)                     *)
(***************************************************************************)
\* some pattern of the list matches the name
MatchesAny(list, name) ==
    \E i \in 1..Len(list) : PatternWrapper_matches_str(list[i], name)

\* C24: contains(value) is true exactly when (includes is absent, or value
\* is present and matches some include pattern) and (excludes is absent, or
\* value is absent, or value matches no exclude pattern); so the default
\* FilterList contains every value and the absent one, a list with
\* includes rejects the absent value, and an excludes-only list accepts it.
C24_FilterListContains ==
    call.op = "FilterList::contains_str" =>
        LET includes == filter_list.includes
            excludes == filter_list.excludes
            value == call.value
        IN /\ call.ret <=>
                  /\ \/ includes = None
                     \/ value # None /\ MatchesAny(includes[1], value[1])
                  /\ \/ excludes = None
                     \/ value = None
                     \/ ~MatchesAny(excludes[1], value[1])
           /\ filter_list = FilterList_default => call.ret
           /\ (includes # None /\ value = None) => ~call.ret
           /\ (includes = None /\ excludes # None /\ value = None) => call.ret

\* a name that an include pattern matches and an exclude pattern rejects
C24_Witness ==
    /\ call.op = "FilterList::contains_str"
    /\ filter_list.includes = Some(<< <<"a">>, <<"b", "a">> >>)
    /\ filter_list.excludes = Some(<< <<"a", "*">> >>)
    /\ call.value = Some(<<"a">>)
    /\ ~call.ret

====
